---- MODULE Spec2Model ----
(***************************************************************************)
(* A model of the ASTRA risk pipeline (risk/metrics.py, data/loader.py).   *)
(*                                                                         *)
(* A DataFrame is a record [len, col]: len rows indexed 0..len-1 (the      *)
(* RangeIndex clean_data leaves behind) and col a function from column     *)
(* names to columns, each column a function from 0..len-1 to its values.   *)
(* Close holds integer prices, Date holds day numbers.  Every derived      *)
(* float is an exact rational [nan, num, den] with den > 0; NaN is the     *)
(* missing marker.  What a call yields is a record [result, error,         *)
(* raised]: a returned (result, error) pair has raised = None, and a call  *)
(* that raises returns no pair and names the exception in raised.  Each    *)
(* member is None or Some(value).                                          *)
(***************************************************************************)
EXTENDS Integers, Sequences, FiniteSets, TLC

VARIABLES
    df,                 \* the input price table of the call under study
    threshold,          \* find_major_drawdowns' threshold argument
    pc,                 \* position inside find_major_drawdowns
    i,                  \* the loop variable of the scan
    records,            \* the scan's list of emitted episodes
    current_peak_idx,
    current_peak_price,
    in_drawdown,
    drawdown_start_idx,
    ret,                \* the (result, error) pair of the last call
    run,                \* how many calls of the detector have been started
    first_ret,          \* what the first call of the detector returned
    df_in,              \* the table as it was handed to the first call
    drawdowns_df,       \* the episode list handed to calculate_recovery
    recovery_df,        \* what calculate_recovery returned
    stage,              \* the stage main is about to run
    raw_data,           \* the argument of clean_data
    called,             \* the function whose outcome ret holds
    st,                 \* what Streamlit has been told to show
    calls,              \* the stages main has invoked, in order
    risk_metrics        \* main's risk_metrics

vars == <<df, threshold, pc, i, records, current_peak_idx, current_peak_price,
          in_drawdown, drawdown_start_idx, ret, run, first_ret, df_in,
          drawdowns_df, recovery_df, stage, raw_data, called, st, calls, risk_metrics>>

-----------------------------------------------------------------------------
(* Bounds of the model *)

MaxLen == 5
MaxRecoveryLen == 3
MaxTroughDay == 3
VolSlack == 1
MaxContractLen == 2
MaxMainLen == 5
WeekLen == 5
WeekendDays == 2
Prices == {16, 19, 20, 21}
Thresholds == {-5, 0, 2, 20}
FirstWeekdays == {0, 3}
CallNumbers == {1, 2}
EpisodeCounts == {0, 1, 2}

-----------------------------------------------------------------------------
(* Values *)

None == [some |-> FALSE]
Some(x) == [some |-> TRUE, val |-> x]

Pair(result, error) == [result |-> result, error |-> error, raised |-> None]
Raise(exception) == [result |-> None, error |-> None, raised |-> Some(exception)]
NoCall == Pair(None, None)

\* the page before main has shown anything: no st.error message, no exception, no
\* tab, no metric
NothingShown == [error |-> <<>>, exception |-> <<>>, tabs |-> <<>>, metric |-> <<>>]

NaN == [nan |-> TRUE, num |-> 0, den |-> 1]
Num(n, d) == [nan |-> FALSE, num |-> n, den |-> d]

RatLt(a, b) == a.num * b.den < b.num * a.den
RatLe(a, b) == a.num * b.den <= b.num * a.den
RatEq(a, b) == a.num * b.den = b.num * a.den
RatAbs(a) == Num(IF a.num < 0 THEN -a.num ELSE a.num, a.den)

NoIndex == -1
NA == -1

GateNum == 95
GateDen == 100

MonthDaysNum == 3044
MonthDaysDen == 100

Window30 == 30
Window60 == 60
TRADING_DAYS_PER_YEAR == 252

RiskFreeNum == 25
RiskFreeDen == 1000
YearDaysNum == 36525
YearDaysDen == 100

Index(d) == 0 .. (d.len - 1)
Columns(d) == DOMAIN d.col
HasCol(d, c) == c \in Columns(d)
Empty(d) == d.len = 0 \/ Columns(d) = {}

EmptyFrame == [len |-> 0, col |-> <<>>]

WithColumn(d, name, column) ==
    [len |-> d.len,
     col |-> [c \in Columns(d) \cup {name} |->
                 IF c = name THEN column ELSE d.col[c]]]

-----------------------------------------------------------------------------
(* Input tables *)

TradingDay(k, first) == k + WeekendDays * ((k + first) \div WeekLen)

PriceFrame(n, close, first) ==
    [len |-> n,
     col |-> [c \in {"Date", "Close"} |->
                 IF c = "Date" THEN [k \in 0 .. (n - 1) |-> TradingDay(k, first)]
                 ELSE close]]

PriceFrames ==
    UNION {{PriceFrame(n, close, first) :
               close \in [0 .. (n - 1) -> Prices], first \in FirstWeekdays} :
           n \in 0 .. MaxLen}

DropColumn(d, name) ==
    [len |-> d.len, col |-> [c \in Columns(d) \ {name} |-> d.col[c]]]

DeficientFrames ==
    {DropColumn(f, c) : f \in {g \in PriceFrames : g.len <= 1}, c \in {"Date", "Close"}}

-----------------------------------------------------------------------------
(* risk/metrics.py: _calculate_drawdown_metrics *)

\* idxmin returning the last label attaining the minimum
IdxMinLast(column, lo, hi) ==
    CHOOSE k \in lo .. hi :
        /\ \A j \in lo .. hi : column[k] <= column[j]
        /\ \A j \in (k + 1) .. hi : column[j] > column[k]

\* Series.idxmin over the label window lo..hi: the first label attaining the minimum
IdxMin(column, lo, hi) ==
    CHOOSE k \in lo .. hi :
        /\ \A j \in lo .. hi : column[k] <= column[j]
        /\ \A j \in lo .. (k - 1) : column[j] > column[k]

DrawdownPct(trough_price, peak_price) ==
    Num((trough_price - peak_price) * 100, peak_price)

\* abs(dd_pct) <= threshold
AtOrBelowThreshold(dd_pct, thr) == RatLe(RatAbs(dd_pct), Num(thr, 1))

BelowThreshold(dd_pct, thr) == RatLt(RatAbs(dd_pct), Num(thr, 1))

_calculate_drawdown_metrics(d, start_idx, end_idx, thr) ==
    LET Close == d.col["Close"]
        Date == d.col["Date"]
        trough_idx == IdxMin(Close, start_idx, end_idx)
        trough_price == Close[trough_idx]
        dd_pct == DrawdownPct(trough_price, Close[start_idx])
    IN  IF BelowThreshold(dd_pct, thr)
        THEN None
        ELSE Some([Peak_Date |-> Date[start_idx],
                   Trough_Date |-> Date[trough_idx],
                   Peak_Price |-> Close[start_idx],
                   Trough_Price |-> trough_price,
                   Drawdown_Pct |-> dd_pct,
                   Duration_Days |-> Date[trough_idx] - Date[start_idx]])

-----------------------------------------------------------------------------
(* risk/metrics.py: find_major_drawdowns *)

MissingDateClose == "DataFrame must contain Date and Close columns."
ThresholdNotPositive == "threshold must be positive."

\* a check that lets a threshold of zero pass
ThresholdRejectedBelowZero(thr) == thr < 0

\* line 165: if threshold <= 0
ThresholdRejected(thr) == thr <= 0

\* a call on a table without rows that reports a failure
NoEpisodesAsFailure == Pair(None, Some("DataFrame is empty."))

\* line 169: return pd.DataFrame(), None
NoEpisodes == Pair(Some(<<>>), None)

\* the locals of the scan
Locals ==
    [i |-> i, records |-> records, current_peak_idx |-> current_peak_idx,
     current_peak_price |-> current_peak_price, in_drawdown |-> in_drawdown,
     drawdown_start_idx |-> drawdown_start_idx]

\* records kept across calls (a list that is not created afresh by each call)
InitialLocalsKeepingRecords(d) ==
    [i |-> 1, records |-> records, current_peak_idx |-> 0,
     current_peak_price |-> d.col["Close"][0], in_drawdown |-> FALSE,
     drawdown_start_idx |-> NoIndex]

\* lines 171-175: the locals before the loop
InitialLocals(d) ==
    [i |-> 1, records |-> <<>>, current_peak_idx |-> 0,
     current_peak_price |-> d.col["Close"][0], in_drawdown |-> FALSE,
     drawdown_start_idx |-> NoIndex]

\* a gate that a price of exactly 95% of the peak passes
AtOrBelowGate(price, peak_price) == price * GateDen <= peak_price * GateNum

\* line 190: price < current_peak_price * 0.95
BelowGate(price, peak_price) == price * GateDen < peak_price * GateNum

\* a comparison that a price equal to the peak passes
AtOrAbovePeak(price, peak_price) == price >= peak_price

\* line 180: price > current_peak_price
AbovePeak(price, peak_price) == price > peak_price

\* a new peak that leaves the scan in its decline
AdvancePeakStayingInDrawdown(L, price) ==
    [L EXCEPT !.current_peak_idx = L.i, !.current_peak_price = price]

\* lines 186-188: the row at L.i becomes the peak
AdvancePeak(L, price) ==
    [L EXCEPT !.in_drawdown = FALSE, !.current_peak_idx = L.i, !.current_peak_price = price]

\* a decline that keeps the start of the decline before it
DrawdownStartKept(L) ==
    IF L.drawdown_start_idx # NoIndex THEN L.drawdown_start_idx ELSE L.current_peak_idx

\* line 192: drawdown_start_idx = current_peak_idx
DrawdownStart(L) == L.current_peak_idx

\* lines 178-192: one iteration of the loop, at index L.i
LoopBody(L, d, thr) ==
    LET price == d.col["Close"][L.i]
    IN  IF AbovePeak(price, L.current_peak_price)
        THEN LET metrics ==
                     IF L.in_drawdown /\ L.drawdown_start_idx # NoIndex
                     THEN _calculate_drawdown_metrics(d, L.drawdown_start_idx, L.i, thr)
                     ELSE None
                 appended == [L EXCEPT !.records = IF metrics.some
                                                   THEN Append(@, metrics.val) ELSE @]
             IN  [AdvancePeak(appended, price) EXCEPT !.i = L.i + 1]
        ELSE IF ~L.in_drawdown /\ BelowGate(price, L.current_peak_price)
        THEN [L EXCEPT !.in_drawdown = TRUE,
                       !.drawdown_start_idx = DrawdownStart(L),
                       !.i = L.i + 1]
        ELSE [L EXCEPT !.i = L.i + 1]

\* a scan that closes the decline still open after the last row
ScanResultClosingOpenDecline(L) ==
    LET metrics ==
            IF L.in_drawdown
            THEN _calculate_drawdown_metrics(df, L.drawdown_start_idx, df.len - 1, threshold)
            ELSE None
    IN  Pair(Some(IF metrics.some THEN Append(L.records, metrics.val) ELSE L.records), None)

\* line 194: pd.DataFrame(records), None
ScanResult(L) == Pair(Some(L.records), None)

SetLocals(L) ==
    /\ i' = L.i
    /\ records' = L.records
    /\ current_peak_idx' = L.current_peak_idx
    /\ current_peak_price' = L.current_peak_price
    /\ in_drawdown' = L.in_drawdown
    /\ drawdown_start_idx' = L.drawdown_start_idx

Returns(pair, call) ==
    /\ ret' = pair
    /\ pc' = "idle"
    /\ first_ret' = IF call = 1 THEN pair ELSE first_ret

\* lines 162-175: the call, its checks and the initialisation of the locals
FindCall ==
    /\ pc = "idle"
    /\ run + 1 \in CallNumbers
    /\ run' = run + 1
    /\ \/ /\ ~HasCol(df, "Date") \/ ~HasCol(df, "Close")
          /\ Returns(Pair(None, Some(MissingDateClose)), run + 1)
          /\ UNCHANGED <<i, records, current_peak_idx, current_peak_price,
                         in_drawdown, drawdown_start_idx>>
       \/ /\ HasCol(df, "Date") /\ HasCol(df, "Close")
          /\ ThresholdRejected(threshold)
          /\ Returns(Pair(None, Some(ThresholdNotPositive)), run + 1)
          /\ UNCHANGED <<i, records, current_peak_idx, current_peak_price,
                         in_drawdown, drawdown_start_idx>>
       \/ /\ HasCol(df, "Date") /\ HasCol(df, "Close")
          /\ ~ThresholdRejected(threshold)
          /\ Empty(df)
          /\ Returns(NoEpisodes, run + 1)
          /\ UNCHANGED <<i, records, current_peak_idx, current_peak_price,
                         in_drawdown, drawdown_start_idx>>
       \/ /\ HasCol(df, "Date") /\ HasCol(df, "Close")
          /\ ~ThresholdRejected(threshold)
          /\ ~Empty(df)
          /\ SetLocals(InitialLocals(df))
          /\ pc' = "loop"
          /\ UNCHANGED <<ret, first_ret>>
    /\ UNCHANGED <<df, threshold, df_in, drawdowns_df, recovery_df, stage,
                   raw_data, called, st, calls, risk_metrics>>

\* lines 177-192: for i in range(1, len(df))
FindLoop ==
    /\ pc = "loop"
    /\ i < df.len
    /\ SetLocals(LoopBody(Locals, df, threshold))
    /\ UNCHANGED <<df, threshold, pc, ret, run, first_ret, df_in, drawdowns_df,
                   recovery_df, stage,
                   raw_data, called, st, calls, risk_metrics>>

\* line 194: the loop is exhausted
FindReturn ==
    /\ pc = "loop"
    /\ i >= df.len
    /\ Returns(ScanResult(Locals), run)
    /\ UNCHANGED <<df, threshold, i, records, current_peak_idx, current_peak_price,
                   in_drawdown, drawdown_start_idx, run, df_in, drawdowns_df,
                   recovery_df, stage,
                   raw_data, called, st, calls, risk_metrics>>

Init ==
    /\ df \in PriceFrames \cup DeficientFrames
    /\ threshold \in Thresholds
    /\ pc = "idle"
    /\ i = 0
    /\ records = <<>>
    /\ current_peak_idx = 0
    /\ current_peak_price = 0
    /\ in_drawdown = FALSE
    /\ drawdown_start_idx = NoIndex
    /\ ret = NoCall
    /\ st = NothingShown
    /\ calls = <<>>
    /\ risk_metrics = None
    /\ run = 0
    /\ first_ret = NoCall
    /\ df_in = df
    /\ drawdowns_df = <<>>
    /\ recovery_df = None
    /\ stage = "none"
    /\ raw_data = None
    /\ called = "none"

Next == FindCall \/ FindLoop \/ FindReturn

Spec == Init /\ [][Next]_vars

-----------------------------------------------------------------------------
(* risk/metrics.py: calculate_recovery *)

FirstOf(S) == CHOOSE j \in S : \A x \in S : j <= x
LastOf(S) == CHOOSE j \in S : \A x \in S : j >= x

\* round(recovery_days / 30.44, 1), in tenths of a month
RecoveryMonthsTenths(recovery_days) ==
    (2 * recovery_days * 10 * MonthDaysDen + MonthDaysNum) \div (2 * MonthDaysNum)

\* the rows dated more than a day after the trough
FutureRowsAfterNextDay(d, trough_date) ==
    {j \in Index(d) : d.col["Date"][j] > trough_date + 1}

\* line 220: df[df["Date"] > trough_date]
FutureRows(d, trough_date) == {j \in Index(d) : d.col["Date"][j] > trough_date}

\* line 221: future[future["Close"] >= peak_price]
RecoveryRows(d, trough_date, peak_price) ==
    {j \in FutureRows(d, trough_date) : d.col["Close"][j] >= peak_price}

\* recovery.iloc[-1]
LastRecoveryRow(rows) == LastOf(rows)

\* line 226: recovery.iloc[0], the first of the rows kept, in the table's row order
FirstRecoveryRow(rows) == FirstOf(rows)

\* the loop stopping at the first episode without a recovery (break for continue)
RecoveryRowStopping(d, row, acc) ==
    LET recovery == RecoveryRows(d, row.Trough_Date, row.Peak_Price)
    IN  IF recovery = {} \/ acc.stopped
        THEN [acc EXCEPT !.stopped = TRUE]
        ELSE [acc EXCEPT !.records = Append(@,
                 [Drawdown_Pct |-> row.Drawdown_Pct,
                  Drawdown_Duration_Days |-> row.Duration_Days,
                  Recovery_Days |-> d.col["Date"][FirstRecoveryRow(recovery)] - row.Trough_Date,
                  Recovery_Months |->
                      RecoveryMonthsTenths(d.col["Date"][FirstRecoveryRow(recovery)] - row.Trough_Date),
                  Trough_Date |-> row.Trough_Date,
                  Recovery_Date |-> d.col["Date"][FirstRecoveryRow(recovery)]])]

\* lines 217-239: one iteration of the loop over the episodes
RecoveryRow(d, row, acc) ==
    LET trough_date == row.Trough_Date
        peak_price == row.Peak_Price
        recovery == RecoveryRows(d, trough_date, peak_price)
    IN  IF recovery = {}
        THEN acc
        ELSE LET recovery_date == d.col["Date"][FirstRecoveryRow(recovery)]
                 recovery_days == recovery_date - trough_date
             IN  [acc EXCEPT !.records = Append(@,
                      [Drawdown_Pct |-> row.Drawdown_Pct,
                       Drawdown_Duration_Days |-> row.Duration_Days,
                       Recovery_Days |-> recovery_days,
                       Recovery_Months |-> RecoveryMonthsTenths(recovery_days),
                       Trough_Date |-> trough_date,
                       Recovery_Date |-> recovery_date])]

RECURSIVE RecoveryLoop(_, _, _, _)
\* line 216: for _, row in drawdowns_df.iterrows(), from row k on
RecoveryLoop(d, dd, k, acc) ==
    IF k > Len(dd) THEN acc ELSE RecoveryLoop(d, dd, k + 1, RecoveryRow(d, dd[k], acc))

\* lines 212-241
calculate_recovery(d, dd) ==
    IF Len(dd) = 0
    THEN dd
    ELSE RecoveryLoop(d, dd, 1, [records |-> <<>>, stopped |-> FALSE]).records

Recover ==
    /\ recovery_df = None
    /\ recovery_df' = Some(calculate_recovery(df, drawdowns_df))
    /\ UNCHANGED <<df, threshold, pc, i, records, current_peak_idx, current_peak_price,
                   in_drawdown, drawdown_start_idx, ret, run, first_ret, df_in,
                   drawdowns_df, stage,
                   raw_data, called, st, calls, risk_metrics>>

\* the price tables and the episode lists calculate_recovery is applied to
RecoveryFrames ==
    UNION {{PriceFrame(n, close, 3) : close \in [0 .. (n - 1) -> Prices]} :
           n \in 0 .. MaxRecoveryLen}

Episodes ==
    {[Peak_Date |-> 0, Trough_Date |-> t, Peak_Price |-> p, Trough_Price |-> 16,
      Drawdown_Pct |-> DrawdownPct(16, p), Duration_Days |-> t] :
        t \in 0 .. MaxTroughDay, p \in Prices}

EpisodeLists == UNION {[1 .. n -> Episodes] : n \in EpisodeCounts}

InitRecovery ==
    /\ df \in RecoveryFrames
    /\ drawdowns_df \in EpisodeLists
    /\ recovery_df = None
    /\ threshold = 20
    /\ pc = "idle"
    /\ i = 0
    /\ records = <<>>
    /\ current_peak_idx = 0
    /\ current_peak_price = 0
    /\ in_drawdown = FALSE
    /\ drawdown_start_idx = NoIndex
    /\ ret = NoCall
    /\ st = NothingShown
    /\ calls = <<>>
    /\ risk_metrics = None
    /\ run = 0
    /\ first_ret = NoCall
    /\ df_in = df
    /\ stage = "none"
    /\ raw_data = None
    /\ called = "none"

NextRecovery == Recover

SpecRecovery == InitRecovery /\ [][NextRecovery]_vars

-----------------------------------------------------------------------------
(* risk/metrics.py: calculate_returns, calculate_volatility, calculate_drawdown *)

MaxOf(S) == CHOOSE m \in S : \A x \in S : m >= x
MinOf(S) == CHOOSE m \in S : \A x \in S : m <= x

ReturnsMissingClose == "DataFrame must contain 'Close' column."
VolatilityMissingReturn == "DataFrame must contain 'Daily_Return' column."

\* pct_change with the first entry filled with zero
PctChangeZeroFilled(column, n) ==
    [k \in 0 .. (n - 1) |->
        IF k = 0 THEN Num(0, 1) ELSE Num(column[k] - column[k - 1], column[k - 1])]

\* line 46: Series.pct_change(): column[k] / column[k-1] - 1, NaN at the first row
PctChange(column, n) ==
    [k \in 0 .. (n - 1) |->
        IF k = 0 THEN NaN ELSE Num(column[k] - column[k - 1], column[k - 1])]

\* a call that returns the Daily_Return column alone, without the columns it was given
ReturnsOnlyDailyReturn(d) ==
    IF ~HasCol(d, "Close")
    THEN Pair(None, Some(ReturnsMissingClose))
    ELSE Pair(Some([len |-> d.len,
                    col |-> [c \in {"Daily_Return"} |-> PctChange(d.col["Close"], d.len)]]),
              None)

\* lines 42-47
calculate_returns(d) ==
    IF ~HasCol(d, "Close")
    THEN Pair(None, Some(ReturnsMissingClose))
    ELSE Pair(Some(WithColumn(d, "Daily_Return", PctChange(d.col["Close"], d.len))), None)

Windows == {Window30, Window60, TRADING_DAYS_PER_YEAR}

\* line 73: f"Volatility_{window}d"
VolatilityColumn(w) == "Volatility_" \o ToString(w) \o "d"

\* a rolling window that asks for one observation less than its length
MinPeriodsOneLess(w) == w - 1

\* line 71: rolling(window=window): min_periods defaults to the window length
MinPeriods(w) == w

\* line 71: .std() of the observations of one window.  The standard deviation is
\* irrational in general: the value is represented by the rows it is computed from.
StdOf(rows) == [nan |-> FALSE, rows |-> rows]

\* line 71: Series.rolling(window=w).std(): at row t the window is the rows
\* t-w+1..t that exist, its observations are the entries that are not NaN, and the
\* result is NaN when there are fewer observations than min_periods
RollingStd(column, n, w) ==
    [t \in 0 .. (n - 1) |->
        LET rows == {k \in 0 .. t : k > t - w}
            observations == {k \in rows : ~column[k].nan}
        IN  IF Cardinality(observations) < MinPeriods(w) THEN NaN ELSE StdOf(observations)]

\* line 72: rolling_std * np.sqrt(TRADING_DAYS_PER_YEAR) * 100.0 keeps NaN and the rows
AnnualizedVol(rolling_std, n) == [t \in 0 .. (n - 1) |-> rolling_std[t]]

RECURSIVE VolatilityLoop(_, _)
\* lines 70-73: for window in (30, 60, TRADING_DAYS_PER_YEAR)
VolatilityLoop(result, windows) ==
    IF windows = {}
    THEN result
    ELSE LET window == MinOf(windows)
             rolling_std == RollingStd(result.col["Daily_Return"], result.len, window)
         IN  VolatilityLoop(
                 WithColumn(result, VolatilityColumn(window),
                            AnnualizedVol(rolling_std, result.len)),
                 windows \ {window})

\* lines 66-75
calculate_volatility(d) ==
    IF ~HasCol(d, "Daily_Return")
    THEN Pair(None, Some(VolatilityMissingReturn))
    ELSE Pair(Some(VolatilityLoop(d, Windows)), None)

\* a drawdown measured from the maximum of the whole series
ToDrawdownSeriesFromGlobalMax(prices, n) ==
    [t \in 0 .. (n - 1) |->
        LET roll_max == MaxOf({prices[j] : j \in 0 .. (n - 1)})
        IN  Num(prices[t] - roll_max, roll_max)]

\* line 99: ffn.to_drawdown_series: prices / np.maximum.accumulate(prices) - 1
to_drawdown_series(prices, n) ==
    [t \in 0 .. (n - 1) |->
        LET roll_max == MaxOf({prices[j] : j \in 0 .. t})
        IN  Num(prices[t] - roll_max, roll_max)]

\* line 102: Series.expanding().max()
ExpandingMax(column, n) == [t \in 0 .. (n - 1) |-> MaxOf({column[j] : j \in 0 .. t})]

\* line 103: Series.expanding().min(), of floats
ExpandingMin(column, n) ==
    [t \in 0 .. (n - 1) |->
        LET seen == {column[j] : j \in 0 .. t}
        IN  CHOOSE m \in seen : \A x \in seen : RatLe(m, x)]

\* lines 94-104
calculate_drawdown(d) ==
    IF ~HasCol(d, "Date") \/ ~HasCol(d, "Close")
    THEN Pair(None, Some(MissingDateClose))
    ELSE LET dd_series == to_drawdown_series(d.col["Close"], d.len)
             Drawdown == [t \in 0 .. (d.len - 1) |->
                             Num(dd_series[t].num * 100, dd_series[t].den)]
             with_dd == WithColumn(d, "Drawdown", Drawdown)
             with_max == WithColumn(with_dd, "Running_Max",
                                    ExpandingMax(d.col["Close"], d.len))
         IN  Pair(Some(WithColumn(with_max, "Max_Drawdown",
                                  ExpandingMin(Drawdown, d.len))), None)

-----------------------------------------------------------------------------
(* ASTRA.py: the stages of main that extend the price table *)

\* an error text that leaves the message of the stage out
ShownErrorWithoutMessage(prefix, err) == prefix

\* lines 107-143: the f-string handed to st.error, prefix and err; the cross mark
\* that opens each prefix is left out of the strings
ShownError(prefix, err) == prefix \o (IF err.some THEN err.val ELSE "None")

\* st.error(...); return
Halt(text) ==
    /\ stage' = "error"
    /\ st' = [st EXCEPT !.error = Append(@, text)]

\* df, err = f(df); if err or df is None: st.error(...); return
RunTableStage(name, outcome, prefix, next_stage) ==
    /\ ret' = outcome
    /\ calls' = Append(calls, name)
    /\ IF outcome.error.some \/ ~outcome.result.some
       THEN Halt(ShownError(prefix, outcome.error)) /\ df' = df
       ELSE stage' = next_stage /\ df' = outcome.result.val /\ st' = st
    /\ UNCHANGED <<threshold, pc, i, records, current_peak_idx, current_peak_price,
                   in_drawdown, drawdown_start_idx, run, first_ret, df_in,
                   drawdowns_df, recovery_df, raw_data, called, risk_metrics>>

\* lines 111-114
ReturnsStage ==
    /\ stage = "returns"
    /\ RunTableStage("calculate_returns", calculate_returns(df),
                     "Error calculating returns: ", "volatility")

\* lines 116-119
VolatilityStage ==
    /\ stage = "volatility"
    /\ RunTableStage("calculate_volatility", calculate_volatility(df),
                     "Error calculating volatility: ", "drawdown")

\* lines 121-124
DrawdownStage ==
    /\ stage = "drawdown"
    /\ RunTableStage("calculate_drawdown", calculate_drawdown(df),
                     "Error calculating drawdown: ", "drawdowns")

\* tables long enough for each rolling window to fill
LongLengths == {w + d : w \in Windows, d \in (-1) .. VolSlack}
CyclePrice(k) == CHOOSE p \in Prices : Cardinality({q \in Prices : q < p}) = (3 * k) % Cardinality(Prices)
LongFrames == {PriceFrame(n, [k \in 0 .. (n - 1) |-> CyclePrice(k)], 0) : n \in LongLengths}

InitSeries ==
    /\ df \in PriceFrames \cup LongFrames
    /\ stage = "returns"
    /\ threshold = 20
    /\ pc = "idle"
    /\ i = 0
    /\ records = <<>>
    /\ current_peak_idx = 0
    /\ current_peak_price = 0
    /\ in_drawdown = FALSE
    /\ drawdown_start_idx = NoIndex
    /\ ret = NoCall
    /\ st = NothingShown
    /\ calls = <<>>
    /\ risk_metrics = None
    /\ run = 0
    /\ first_ret = NoCall
    /\ df_in = df
    /\ drawdowns_df = <<>>
    /\ recovery_df = None
    /\ raw_data = None
    /\ called = "none"

NextSeries == ReturnsStage \/ VolatilityStage \/ DrawdownStage

SpecSeries == InitSeries /\ [][NextSeries]_vars

-----------------------------------------------------------------------------
(* risk/metrics.py: find_major_drawdowns and calculate_risk_metrics as calls *)

RECURSIVE Scan(_, _, _)
\* lines 177-192: the loop, run from the locals L to its end
Scan(L, d, thr) == IF L.i >= d.len THEN L ELSE Scan(LoopBody(L, d, thr), d, thr)

\* lines 162-194
find_major_drawdowns(d, thr) ==
    IF ~HasCol(d, "Date") \/ ~HasCol(d, "Close")
    THEN Pair(None, Some(MissingDateClose))
    ELSE IF ThresholdRejected(thr)
    THEN Pair(None, Some(ThresholdNotPositive))
    ELSE IF Empty(d)
    THEN NoEpisodes
    ELSE ScanResult(Scan(InitialLocals(d), d, thr))

RiskMissingColumns == "DataFrame must contain Date, Close, and Daily_Return columns."

RECURSIVE Gcd(_, _)
Gcd(a, b) == IF b = 0 THEN a ELSE Gcd(b, a % b)

\* a rational in lowest terms
Reduced(a) ==
    LET g == Gcd(IF a.num < 0 THEN -a.num ELSE a.num, a.den)
    IN  Num(a.num \div g, a.den \div g)

RECURSIVE LowestRatioToPeak(_, _, _, _, _, _)
\* quantstats max_drawdown, row by row from row t on: the prices are the returns
\* with NaN filled by zero, compounded (to_prices); the result is
\* (prices / prices.expanding().max()).min().  price and peak are the compounded
\* price and its running maximum before row t, lowest the lowest ratio so far.
LowestRatioToPeak(returns, n, t, price, peak, lowest) ==
    IF t >= n
    THEN lowest
    ELSE LET r == IF returns[t].nan THEN Num(0, 1) ELSE returns[t]
             now == Reduced(Num(price.num * (r.num + r.den), price.den * r.den))
             top == IF RatLt(peak, now) THEN now ELSE peak
             ratio == Reduced(Num(now.num * top.den, now.den * top.num))
         IN  LowestRatioToPeak(returns, n, t + 1, now, top,
                               IF RatLt(ratio, lowest) THEN ratio ELSE lowest)

\* a maximum drawdown scaled to percent
MaxDrawdownInPercent(returns, n) ==
    LET lowest == LowestRatioToPeak(returns, n, 0, Num(1, 1), Num(0, 1), Num(1, 1))
    IN  Num((lowest.num - lowest.den) * 100, lowest.den)

\* line 274: qs.stats.max_drawdown(returns): the lowest ratio of the compounded
\* returns to their running maximum, minus one: a fraction
max_drawdown(returns, n) ==
    LET lowest == LowestRatioToPeak(returns, n, 0, Num(1, 1), Num(0, 1), Num(1, 1))
    IN  Num(lowest.num - lowest.den, lowest.den)

\* lines 264-290 for a table with rows.  total_return (ffn: last price over first,
\* minus one), max_drawdown, years and risk_free_rate are rationals; cagr,
\* volatility, sharpe, sortino and excess_return, which quantstats derives from
\* roots and standard deviations of the returns, are not represented here.
RiskMetrics(d) ==
    LET Close == d.col["Close"]
        Date == d.col["Date"]
        last == d.len - 1
    IN  [total_return |-> Num(Close[last] - Close[0], Close[0]),
         max_drawdown |-> max_drawdown(d.col["Daily_Return"], d.len),
         years |-> Num((Date[last] - Date[0]) * YearDaysDen, YearDaysNum),
         risk_free_rate |-> Num(RiskFreeNum, RiskFreeDen)]

\* lines 261-290.  On a table without rows df["Date"].iloc[-1] (line 276) is out of
\* bounds: the call raises, at that line if no call before it has raised, and returns
\* no pair.
calculate_risk_metrics(d) ==
    IF ~HasCol(d, "Date") \/ ~HasCol(d, "Close") \/ ~HasCol(d, "Daily_Return")
    THEN Pair(None, Some(RiskMissingColumns))
    ELSE IF d.len = 0
    THEN Raise("IndexError")
    ELSE Pair(Some(RiskMetrics(d)), None)

-----------------------------------------------------------------------------
(* data/loader.py *)

DownloadFailed == "Failed to download data for ticker"
NoDataReturned == "No data returned for ticker"
RawDataEmpty == "Input raw_data is empty."
MissingDate == "Missing Date column after reset_index."

\* A raw table is [len, col, index]: index is None for a RangeIndex and Some(labels)
\* for a DatetimeIndex.  What yf.download does is [raised, data], data None or a raw
\* table.

\* lines 38-49
download_data(yf) ==
    IF yf.raised
    THEN Pair(None, Some(DownloadFailed))
    ELSE IF ~yf.data.some \/ Empty(yf.data.val)
    THEN Pair(None, Some(NoDataReturned))
    ELSE Pair(yf.data, None)

\* line 74: reset_index().rename(columns={"index": "Date"}) of a DatetimeIndex
ResetIndex(d) ==
    IF d.index.some
    THEN [len |-> d.len,
          col |-> [c \in Columns(d) \cup {"Date"} |->
                      IF c = "Date" THEN d.index.val ELSE d.col[c]]]
    ELSE [len |-> d.len, col |-> d.col]

CleanColumns == {"Date", "Open", "High", "Low", "Close", "Volume"}

\* lines 82-89: Close from Adj Close, the missing columns filled with pd.NA, and
\* the six columns selected
SelectColumns(d) ==
    [len |-> d.len,
     col |-> [c \in CleanColumns |->
                 IF c = "Close" /\ HasCol(d, "Adj Close") THEN d.col["Adj Close"]
                 ELSE IF HasCol(d, c) THEN d.col[c]
                 ELSE [k \in 0 .. (d.len - 1) |-> NA]]]

\* line 90: dropna(subset=["Date", "Close"]).sort_values("Date").reset_index(drop=True);
\* rows of equal Date are kept in their order
DropSortReset(d) ==
    LET kept == {k \in 0 .. (d.len - 1) : d.col["Date"][k] # NA /\ d.col["Close"][k] # NA}
        Before(j, k) ==
            \/ d.col["Date"][j] < d.col["Date"][k]
            \/ d.col["Date"][j] = d.col["Date"][k] /\ j < k
        RowAt(r) == CHOOSE k \in kept : Cardinality({j \in kept : Before(j, k)}) = r
    IN  [len |-> Cardinality(kept),
         col |-> [c \in Columns(d) |->
                     [r \in 0 .. (Cardinality(kept) - 1) |-> d.col[c][RowAt(r)]]]]

\* lines 68-92
clean_data(raw) ==
    IF ~raw.some \/ Empty(raw.val)
    THEN Pair(None, Some(RawDataEmpty))
    ELSE LET reset == ResetIndex(raw.val)
         IN  IF ~HasCol(reset, "Date")
             THEN Pair(None, Some(MissingDate))
             ELSE Pair(Some(DropSortReset(SelectColumns(reset))), None)

-----------------------------------------------------------------------------
(* analysis/indicators.py *)

FactorsMissingClose == "DataFrame must contain 'Close' column."

MAWindow20 == 20
MAWindow100 == 100
MomentumLag == 20

RECURSIVE SumOver(_, _, _)
SumOver(column, lo, hi) == IF lo > hi THEN 0 ELSE column[hi] + SumOver(column, lo, hi - 1)

\* line 42: Series.rolling(window=w).mean(): NaN until w rows are in the window
RollingMean(column, n, w) ==
    [t \in 0 .. (n - 1) |->
        IF t + 1 < w THEN NaN ELSE Num(SumOver(column, t - w + 1, t), w)]

\* line 44: Series.pct_change(20) * 100.0
Momentum(column, n) ==
    [t \in 0 .. (n - 1) |->
        IF t < MomentumLag
        THEN NaN
        ELSE Num((column[t] - column[t - MomentumLag]) * 100, column[t - MomentumLag])]

\* lines 34-45
calculate_factors(d) ==
    IF ~HasCol(d, "Close")
    THEN Pair(None, Some(FactorsMissingClose))
    ELSE LET Close == d.col["Close"]
             ma_20 == WithColumn(d, "MA_20", RollingMean(Close, d.len, MAWindow20))
             ma_100 == WithColumn(ma_20, "MA_100", RollingMean(Close, d.len, MAWindow100))
         IN  Pair(Some(WithColumn(ma_100, "Mom_20d", Momentum(Close, d.len))), None)

-----------------------------------------------------------------------------
(* ui/components.py *)

\* f"{x * 100:.2f}": x in percent, as a whole number of hundredths, rounded
PercentHundredths(x) == (2 * x.num * 10000 + x.den) \div (2 * x.den)

\* lines 32-37: of the five metrics the Max Drawdown one, the only one whose value
\* is represented: abs(max_drawdown) * 100 with two decimals
render_key_metrics(metrics) ==
    <<[label |-> "Max Drawdown", hundredths |-> PercentHundredths(RatAbs(metrics.max_drawdown))]>>

-----------------------------------------------------------------------------
(* Each function that returns a (result, error) pair, called once on its input *)

RawFrame(n, close, dates, datetime_index, columns) ==
    [len |-> n,
     index |-> IF datetime_index THEN Some(dates) ELSE None,
     col |-> [c \in columns |-> IF c = "Date" THEN dates ELSE close]]

RawColumnSets == {{"Close", "Volume"}, {"Date", "Close"}, {"Adj Close", "Close"}, {"Open"}}

AllRawFrames ==
    UNION {{RawFrame(n, close, dates, dt, cs) :
               close \in [0 .. (n - 1) -> {NA, 0, 20}], dates \in [0 .. (n - 1) -> {NA, 0, 1}],
               dt \in BOOLEAN, cs \in RawColumnSets} :
           n \in 0 .. MaxContractLen}

\* a table has its dates in a DatetimeIndex or in a Date column, not in both
RawFrames == {f \in AllRawFrames : ~(f.index.some /\ HasCol(f, "Date"))}

RawInputs == {None} \cup {Some(f) : f \in RawFrames}

KeepColumns(d, names) ==
    [len |-> d.len, col |-> [c \in Columns(d) \cap names |-> d.col[c]]]

\* tables holding any subset of the columns Date, Close and Daily_Return
ContractFrames ==
    {KeepColumns(calculate_returns(f).result.val, names) :
        f \in {g \in PriceFrames : g.len <= MaxContractLen},
        names \in SUBSET {"Date", "Close", "Daily_Return"}}

notCalled ==
    <<df, threshold, pc, i, records, current_peak_idx, current_peak_price, in_drawdown,
      drawdown_start_idx, run, first_ret, df_in, drawdowns_df, recovery_df, stage,
      raw_data, st, calls, risk_metrics>>

\* yf.download raises or returns, and what it returns is None or a raw table
CallDownloadData ==
    /\ called = "none"
    /\ called' = "download_data"
    /\ \E raised \in BOOLEAN : ret' = download_data([raised |-> raised, data |-> raw_data])
    /\ UNCHANGED notCalled

CallCleanData ==
    /\ called = "none"
    /\ called' = "clean_data"
    /\ ret' = clean_data(raw_data)
    /\ UNCHANGED notCalled

CallCalculateReturns ==
    /\ called = "none"
    /\ called' = "calculate_returns"
    /\ ret' = calculate_returns(df)
    /\ UNCHANGED notCalled

CallCalculateVolatility ==
    /\ called = "none"
    /\ called' = "calculate_volatility"
    /\ ret' = calculate_volatility(df)
    /\ UNCHANGED notCalled

CallCalculateDrawdown ==
    /\ called = "none"
    /\ called' = "calculate_drawdown"
    /\ ret' = calculate_drawdown(df)
    /\ UNCHANGED notCalled

CallFindMajorDrawdowns ==
    /\ called = "none"
    /\ called' = "find_major_drawdowns"
    /\ ret' = find_major_drawdowns(df, threshold)
    /\ UNCHANGED notCalled

CallCalculateRiskMetrics ==
    /\ called = "none"
    /\ called' = "calculate_risk_metrics"
    /\ ret' = calculate_risk_metrics(df)
    /\ UNCHANGED notCalled

InitContract ==
    /\ \/ df \in ContractFrames /\ raw_data = None
       \/ df = EmptyFrame /\ raw_data \in RawInputs
    /\ threshold \in Thresholds
    /\ called = "none"
    /\ stage = "none"
    /\ pc = "idle"
    /\ i = 0
    /\ records = <<>>
    /\ current_peak_idx = 0
    /\ current_peak_price = 0
    /\ in_drawdown = FALSE
    /\ drawdown_start_idx = NoIndex
    /\ ret = NoCall
    /\ st = NothingShown
    /\ calls = <<>>
    /\ risk_metrics = None
    /\ run = 0
    /\ first_ret = NoCall
    /\ df_in = df
    /\ drawdowns_df = <<>>
    /\ recovery_df = None

NextContract ==
    \/ CallDownloadData
    \/ CallCleanData
    \/ CallCalculateReturns
    \/ CallCalculateVolatility
    \/ CallCalculateDrawdown
    \/ CallFindMajorDrawdowns
    \/ CallCalculateRiskMetrics

SpecContract == InitContract /\ [][NextContract]_vars

-----------------------------------------------------------------------------
(* ASTRA.py: main, from the click on Run Analysis *)

\* line 126: threshold=20.0
MajorDrawdownThreshold == 20

\* lines 63-71
_load_and_prepare_data(yf) ==
    LET downloaded == download_data(yf)
    IN  IF downloaded.error.some
        THEN Pair(None, downloaded.error)
        ELSE LET cleaned == clean_data(downloaded.result)
             IN  IF cleaned.error.some
                 THEN Pair(None, cleaned.error)
                 ELSE Pair(cleaned.result, None)

\* line 107: f"Error: {err or 'Unknown error loading data.'}"
ShownLoadError(err) ==
    ShownError("Error: ", IF err.some THEN err ELSE Some("Unknown error loading data."))

\* lines 105-108: yf.download raises or returns raw_data
LoadStage ==
    /\ stage = "load"
    /\ \E raised \in BOOLEAN :
           LET outcome == _load_and_prepare_data([raised |-> raised, data |-> raw_data])
           IN  /\ ret' = outcome
               /\ calls' = Append(calls, "_load_and_prepare_data")
               /\ IF outcome.error.some \/ ~outcome.result.some
                  THEN Halt(ShownLoadError(outcome.error)) /\ df' = df
                  ELSE stage' = "returns" /\ df' = outcome.result.val /\ st' = st
    /\ UNCHANGED <<threshold, pc, i, records, current_peak_idx, current_peak_price,
                   in_drawdown, drawdown_start_idx, run, first_ret, df_in,
                   drawdowns_df, recovery_df, raw_data, called, risk_metrics>>

\* lines 126-131
DrawdownsStage ==
    /\ stage = "drawdowns"
    /\ LET outcome == find_major_drawdowns(df, threshold)
       IN  /\ ret' = outcome
           /\ calls' = Append(calls, "find_major_drawdowns")
           /\ IF outcome.error.some
              THEN /\ Halt(ShownError("Error finding drawdowns: ", outcome.error))
                   /\ drawdowns_df' = drawdowns_df
              ELSE /\ stage' = "recovery"
                   /\ st' = st
                   /\ drawdowns_df' = IF outcome.result.some THEN outcome.result.val ELSE <<>>
    /\ UNCHANGED <<df, threshold, pc, i, records, current_peak_idx, current_peak_price,
                   in_drawdown, drawdown_start_idx, run, first_ret, df_in,
                   recovery_df, raw_data, called, risk_metrics>>

\* line 133
RecoveryStage ==
    /\ stage = "recovery"
    /\ recovery_df' = Some(calculate_recovery(df, drawdowns_df))
    /\ calls' = Append(calls, "calculate_recovery")
    /\ stage' = "risk"
    /\ UNCHANGED <<df, threshold, pc, i, records, current_peak_idx, current_peak_price,
                   in_drawdown, drawdown_start_idx, ret, run, first_ret, df_in,
                   drawdowns_df, raw_data, called, st, risk_metrics>>

\* lines 135-138; an exception the call raises is not caught by main: the run ends
\* and Streamlit shows the exception
RiskStage ==
    /\ stage = "risk"
    /\ LET outcome == calculate_risk_metrics(df)
       IN  /\ ret' = outcome
           /\ calls' = Append(calls, "calculate_risk_metrics")
           /\ IF outcome.raised.some
              THEN /\ stage' = "raised"
                   /\ st' = [st EXCEPT !.exception = Append(@, outcome.raised.val)]
                   /\ risk_metrics' = risk_metrics
              ELSE IF outcome.error.some \/ ~outcome.result.some
              THEN /\ Halt(ShownError("Error calculating risk metrics: ", outcome.error))
                   /\ risk_metrics' = risk_metrics
              ELSE /\ stage' = "indicators"
                   /\ st' = st
                   /\ risk_metrics' = outcome.result
    /\ UNCHANGED <<df, threshold, pc, i, records, current_peak_idx, current_peak_price,
                   in_drawdown, drawdown_start_idx, run, first_ret, df_in,
                   drawdowns_df, recovery_df, raw_data, called>>

\* lines 141-144
FactorsStage ==
    /\ stage = "indicators"
    /\ RunTableStage("calculate_factors", calculate_factors(df),
                     "Error calculating indicators: ", "render")

\* lines 146-156: the labels of the tabs, without their pictograms
TabNames ==
    <<"Risk Dashboard", "Metrics", "Drawdowns", "Recovery", "Data",
      "Strategy (Phase B)", "Monte Carlo (Phase B)">>

\* lines 146-177: the seven tabs and what is rendered in them
RenderStage ==
    /\ stage = "render"
    /\ st' = [st EXCEPT !.tabs = TabNames, !.metric = render_key_metrics(risk_metrics.val)]
    /\ calls' = Append(calls, "render")
    /\ stage' = "done"
    /\ UNCHANGED <<df, threshold, pc, i, records, current_peak_idx, current_peak_price,
                   in_drawdown, drawdown_start_idx, ret, run, first_ret, df_in,
                   drawdowns_df, recovery_df, raw_data, called, risk_metrics>>

MainPrices == {16, 20, 21, 22}

\* dates that repeat the date of the second row in the third
RepeatedDay(k) == TradingDay(IF k >= 2 THEN k - 1 ELSE k, 0)

DatePatterns(n) ==
    {[k \in 0 .. (n - 1) |-> TradingDay(k, 0)], [k \in 0 .. (n - 1) |-> RepeatedDay(k)]}

\* what yf.download returns: the dates in a DatetimeIndex, the prices in columns
DownloadedFrames ==
    UNION {{RawFrame(n, close, dates, TRUE, {"Open", "High", "Low", "Close", "Volume"}) :
               close \in [0 .. (n - 1) -> MainPrices], dates \in DatePatterns(n)} :
           n \in 0 .. MaxMainLen}

\* tables long enough for the moving averages and the momentum to have values
LongDownloadedFrames ==
    {RawFrame(n, [k \in 0 .. (n - 1) |-> CyclePrice(k)],
              [k \in 0 .. (n - 1) |-> TradingDay(k, 0)], TRUE, {"Close", "Volume"}) :
        n \in {MomentumLag, MomentumLag + 1}}

\* the raw tables none of whose prices is zero
PricedInputs ==
    {raw \in RawInputs :
        raw.some => \A c \in Columns(raw.val) \ {"Date"} :
                        \A k \in 0 .. (raw.val.len - 1) : raw.val.col[c][k] # 0}

InitMain ==
    /\ raw_data \in PricedInputs \cup {Some(f) : f \in DownloadedFrames \cup LongDownloadedFrames}
    /\ stage = "load"
    /\ df = EmptyFrame
    /\ threshold = MajorDrawdownThreshold
    /\ pc = "idle"
    /\ i = 0
    /\ records = <<>>
    /\ current_peak_idx = 0
    /\ current_peak_price = 0
    /\ in_drawdown = FALSE
    /\ drawdown_start_idx = NoIndex
    /\ ret = NoCall
    /\ st = NothingShown
    /\ calls = <<>>
    /\ risk_metrics = None
    /\ run = 0
    /\ first_ret = NoCall
    /\ df_in = df
    /\ drawdowns_df = <<>>
    /\ recovery_df = None
    /\ called = "none"

NextMain ==
    \/ LoadStage
    \/ ReturnsStage
    \/ VolatilityStage
    \/ DrawdownStage
    \/ DrawdownsStage
    \/ RecoveryStage
    \/ RiskStage
    \/ FactorsStage
    \/ RenderStage

SpecMain == InitMain /\ [][NextMain]_vars

-----------------------------------------------------------------------------
(* Properties of find_major_drawdowns *)

CloseAt(k) == df.col["Close"][k]
DateAt(k) == df.col["Date"][k]

WindowMin(lo, hi) == MinOf({CloseAt(j) : j \in lo .. hi})
\* the magnitude, in percent, of the decline from Close[lo] to the minimum of lo..hi
DeclineMagnitude(lo, hi) == Num((CloseAt(lo) - WindowMin(lo, hi)) * 100, CloseAt(lo))

Returned == pc = "idle" /\ run >= 1
ReturnedEpisodes == IF Returned /\ ret.result.some THEN ret.result.val ELSE <<>>
Range(seq) == {seq[k] : k \in 1 .. Len(seq)}

\* the scan is about to close the open decline at index i
ClosingStep == pc = "loop" /\ i < df.len /\ in_drawdown /\ CloseAt(i) > current_peak_price

EpisodeSound(e) ==
    /\ RatLe(Num(threshold, 1), RatAbs(e.Drawdown_Pct))
    /\ e.Drawdown_Pct.num < 0
    /\ e.Trough_Date >= e.Peak_Date
    /\ e.Duration_Days >= 0

\* C1: every emitted episode has |Drawdown_Pct| >= threshold, Drawdown_Pct < 0 and
\* Trough_Date >= Peak_Date (Duration_Days >= 0); a decline closed by the scan is
\* emitted exactly when its magnitude is at least the threshold, so one below the
\* threshold is dropped and one equal to the threshold is emitted.
C1_EpisodesMeetThreshold ==
    /\ [](\A e \in Range(records) \cup Range(ReturnedEpisodes) : EpisodeSound(e))
    /\ [][ClosingStep =>
            IF RatLt(DeclineMagnitude(drawdown_start_idx, i), Num(threshold, 1))
            THEN records' = records
            ELSE Len(records') = Len(records) + 1]_vars

\* an episode whose magnitude equals the threshold exactly has been returned, and a
\* closed decline below the threshold was passed over in the same state space
C1_Witness ==
    /\ Returned
    /\ \E e \in Range(ReturnedEpisodes) : RatEq(RatAbs(e.Drawdown_Pct), Num(threshold, 1))

\* C2: when the scan ends IN_DRAWDOWN no episode is returned for the open decline,
\* and every returned episode was closed by a later price strictly above its peak.
C2_OpenDeclineNotEmitted ==
    Returned =>
        /\ \A e \in Range(ReturnedEpisodes) :
               \E k \in Index(df) : DateAt(k) > e.Trough_Date /\ CloseAt(k) > e.Peak_Price
        /\ (ret.result.some /\ in_drawdown) =>
               \A e \in Range(ReturnedEpisodes) : e.Peak_Date # DateAt(drawdown_start_idx)

\* the scan returned while IN_DRAWDOWN with an open decline of at least the threshold
C2_Witness ==
    /\ Returned /\ ret.result.some /\ in_drawdown
    /\ RatLe(Num(threshold, 1), DeclineMagnitude(drawdown_start_idx, df.len - 1))

\* C3: an episode emitted at index i with drawdown start s has Trough_Price the
\* minimum Close over s..i, Trough_Date the date of the first index attaining it,
\* that index strictly between s and i, Peak_Price = Close[s] and
\* Drawdown_Pct = (Trough_Price - Peak_Price) / Peak_Price * 100.
C3_TroughIsFirstWindowMinimum ==
    [][Len(records') > Len(records) =>
        LET e == records'[Len(records')]
            s == drawdown_start_idx
        IN  /\ e.Trough_Price = WindowMin(s, i)
            /\ \E t \in (s + 1) .. (i - 1) :
                   /\ e.Trough_Date = DateAt(t)
                   /\ CloseAt(t) = e.Trough_Price
                   /\ \A j \in s .. (t - 1) : CloseAt(j) > e.Trough_Price
            /\ e.Peak_Price = CloseAt(s)
            /\ e.Peak_Date = DateAt(s)
            /\ RatEq(e.Drawdown_Pct,
                     Num((e.Trough_Price - e.Peak_Price) * 100, e.Peak_Price))]_vars

\* an episode was returned whose window holds its minimum price twice
C3_Witness ==
    \E e \in Range(ReturnedEpisodes) : \E t, u \in Index(df) :
        /\ t < u
        /\ DateAt(t) = e.Trough_Date
        /\ CloseAt(u) = e.Trough_Price
        /\ \A j \in t .. u : CloseAt(j) <= e.Peak_Price

\* C6: a second call on the same table with the same threshold returns what the
\* first call returned, and the calls leave the table as it was handed in.
C6_SecondRunIdentical ==
    /\ df = df_in
    /\ (Returned /\ run >= 2) => ret = first_ret

\* a second call has returned a non-empty episode list
C6_Witness == Returned /\ run >= 2 /\ Len(ReturnedEpisodes) >= 1

HasDateClose == HasCol(df, "Date") /\ HasCol(df, "Close")

\* C11: a call on a table without rows that has the Date and Close columns, with a
\* positive threshold, returns an empty episode list and no error.
C11_EmptySeriesNoEpisodes ==
    (Returned /\ HasDateClose /\ df.len = 0 /\ threshold > 0) =>
        /\ ret.result = Some(<<>>)
        /\ ret.error = None
        /\ ret.raised = None

\* a call on a table without rows, with a positive threshold, has returned
C11_Witness == Returned /\ HasDateClose /\ df.len = 0 /\ threshold > 0

\* C12: with a threshold of zero or less the call fails, with no list and the
\* threshold message, on every table that has the Date and Close columns, the
\* table without rows included; on a table that lacks one of the two columns the
\* message is the one of the missing columns, whatever the threshold.
C12_ThresholdCheckedBetweenColumnsAndEmpty ==
    Returned =>
        /\ (HasDateClose /\ threshold <= 0) =>
               ret = Pair(None, Some(ThresholdNotPositive))
        /\ ~HasDateClose => ret = Pair(None, Some(MissingDateClose))

\* a call with a threshold below zero on a table without rows, which has both
\* columns, has returned
C12_Witness == Returned /\ HasDateClose /\ threshold < 0 /\ df.len = 0

\* the scan is about to process the row at index i
LoopStep == pc = "loop" /\ i < df.len

\* C16: an episode is appended only at a step i where the scan is IN_DRAWDOWN and
\* Close[i] > current_peak_price, and at such a step it is appended exactly when
\* the magnitude of the decline is at least the threshold; appended or not,
\* afterwards current_peak_idx = i, current_peak_price = Close[i] and in_drawdown
\* is false.  While IN_DRAWDOWN with Close[i] <= current_peak_price the peak
\* index, the peak price and the drawdown start index do not change.
C16_EpisodeClosedOnlyByHigherPrice ==
    [][/\ (pc = "loop" /\ records' # records) => ClosingStep
       /\ ClosingStep =>
              /\ IF RatLe(Num(threshold, 1), DeclineMagnitude(drawdown_start_idx, i))
                 THEN /\ Len(records') = Len(records) + 1
                      /\ SubSeq(records', 1, Len(records)) = records
                 ELSE records' = records
              /\ current_peak_idx' = i
              /\ current_peak_price' = CloseAt(i)
              /\ in_drawdown' = FALSE
       /\ (LoopStep /\ in_drawdown /\ CloseAt(i) <= current_peak_price) =>
              UNCHANGED <<current_peak_idx, current_peak_price, drawdown_start_idx,
                          in_drawdown, records>>]_vars

\* the scan has just closed a decline with an episode, after it closed an earlier
\* decline below the threshold without one
C16_Witness ==
    /\ pc = "loop" /\ ~in_drawdown /\ current_peak_idx = i - 1 /\ threshold > 0
    /\ Len(records) = 1
    /\ records[1].Peak_Date = DateAt(drawdown_start_idx)
    /\ \E s, t \in 0 .. drawdown_start_idx :
           /\ s < t
           /\ \A j \in 0 .. t : CloseAt(j) <= CloseAt(s)
           /\ CloseAt(t) * 100 < CloseAt(s) * 95

RunningMax(t) == MaxOf({CloseAt(j) : j \in 0 .. t})

\* no row of the table is strictly below 95% of the running maximum
NeverBelowGate == \A t \in Index(df) : CloseAt(t) * 100 >= RunningMax(t) * 95

\* C17: the scan enters IN_DRAWDOWN at step i exactly when it is AT_PEAK and
\* Close[i] is strictly below 95% of current_peak_price, and then sets
\* drawdown_start_idx to current_peak_idx; a price from 95% of the peak up to the
\* peak, while AT_PEAK, changes nothing; a table that never falls strictly below
\* 95% of its running maximum gives no episode for any positive threshold.
C17_DeclineEnteredStrictlyBelowGate ==
    /\ [][LoopStep =>
            /\ (~in_drawdown /\ in_drawdown') <=>
                   (~in_drawdown /\ CloseAt(i) * 100 < current_peak_price * 95)
            /\ (~in_drawdown /\ in_drawdown') =>
                   /\ drawdown_start_idx' = current_peak_idx
                   /\ UNCHANGED <<current_peak_idx, current_peak_price, records>>
            /\ (/\ ~in_drawdown
                /\ CloseAt(i) * 100 >= current_peak_price * 95
                /\ CloseAt(i) <= current_peak_price) =>
                   UNCHANGED <<current_peak_idx, current_peak_price, in_drawdown,
                               drawdown_start_idx, records>>]_vars
    /\ []((Returned /\ ret.result.some /\ NeverBelowGate) => ReturnedEpisodes = <<>>)

\* a scan has returned on a table of three rows or more that touches 95% of its
\* running maximum and never falls below it
C17_Witness ==
    /\ Returned /\ ret.result.some /\ df.len >= 3
    /\ NeverBelowGate
    /\ \E t \in Index(df) : CloseAt(t) * 100 = RunningMax(t) * 95

\* C18: after the row at index i - 1 is processed, current_peak_price is the
\* maximum of Close[0 .. i-1], which is Running_Max[i-1], current_peak_idx is the
\* first index attaining it, and in_drawdown implies drawdown_start_idx =
\* current_peak_idx; so the Peak_Price of an episode is the highest Close up to its
\* trough and its Peak_Date the earliest date of that Close.
C18_PeakIsRunningMaximum ==
    /\ pc = "loop" =>
           /\ current_peak_price = RunningMax(i - 1)
           /\ current_peak_price = ExpandingMax(df.col["Close"], df.len)[i - 1]
           /\ current_peak_idx = FirstOf({j \in 0 .. (i - 1) : CloseAt(j) = current_peak_price})
           /\ in_drawdown => drawdown_start_idx = current_peak_idx
    /\ \A e \in Range(records) \cup Range(ReturnedEpisodes) :
           LET upto == {j \in Index(df) : DateAt(j) <= e.Trough_Date}
           IN  /\ e.Peak_Price = MaxOf({CloseAt(j) : j \in upto})
               /\ e.Peak_Date = DateAt(FirstOf({j \in upto : CloseAt(j) = e.Peak_Price}))

\* the scan is IN_DRAWDOWN after rows that hold the running maximum twice
C18_Witness ==
    /\ pc = "loop" /\ in_drawdown /\ i >= 3
    /\ \E j \in (current_peak_idx + 1) .. (i - 1) : CloseAt(j) = current_peak_price

\* the first row after the trough of an episode whose Close is above its peak
ClosedAt(e) ==
    FirstOf({j \in Index(df) : DateAt(j) > e.Trough_Date /\ CloseAt(j) > e.Peak_Price})

\* On tables whose dates increase strictly the returned episodes are in date order
\* and do not overlap: the Peak_Date of each is after the Trough_Date of the one
\* before it and not before the date of the row that closed the one before it, and
\* its Peak_Price is higher.  The row that closes an episode is the first row
\* after its trough above its peak.
ChronologicalUnderIncreasingDates ==
    /\ [](\A k \in 1 .. (Len(ReturnedEpisodes) - 1) :
             LET a == ReturnedEpisodes[k]
                 b == ReturnedEpisodes[k + 1]
             IN  /\ b.Peak_Date > a.Trough_Date
                 /\ b.Peak_Date >= DateAt(ClosedAt(a))
                 /\ b.Peak_Price > a.Peak_Price)
    /\ [][Len(records') > Len(records) => ClosedAt(records'[Len(records')]) = i]_vars

\* two episodes have been returned
TwoEpisodesReturned == Returned /\ Len(ReturnedEpisodes) >= 2

\* the row at index s sets a new running maximum
NewRunningMax(s) == s = 0 \/ CloseAt(s) > RunningMax(s - 1)

\* the rows after s whose Close is above Close[s]
HigherAfter(s) == {j \in (s + 1) .. (df.len - 1) : CloseAt(j) > CloseAt(s)}

\* the starts of the maximal intervals: rows that set a new running maximum and are
\* followed by a higher Close
IntervalStarts == {s \in Index(df) : NewRunningMax(s) /\ HigherAfter(s) # {}}

\* the first row after s above Close[s], which ends the interval that starts at s
IntervalEnd(s) == FirstOf(HigherAfter(s))

\* some price strictly inside the interval is strictly below 95% of Close[s]
FallsBelowGate(s) ==
    \E j \in (s + 1) .. (IntervalEnd(s) - 1) : CloseAt(j) * 100 < CloseAt(s) * 95

\* the decline from Close[s] to the minimum of the interval is at least the threshold
DeclineMeetsThreshold(s) ==
    RatLe(Num(threshold, 1), DeclineMagnitude(s, IntervalEnd(s) - 1))

\* the positions of the returned episodes whose peak is the row at s
EpisodesOf(s) ==
    {k \in 1 .. Len(ReturnedEpisodes) :
        /\ ReturnedEpisodes[k].Peak_Price = CloseAt(s)
        /\ ReturnedEpisodes[k].Peak_Date = DateAt(s)}

\* C21: for every maximal interval from a row s that sets a new running maximum to
\* the first later row i with Close[i] > Close[s], a successful scan returns exactly
\* one episode with Peak_Price = Close[s] when some price strictly between s and i
\* is strictly below 95% of Close[s] and the decline from Close[s] to the minimum of
\* the interval is at least the threshold, and no episode for that interval
\* otherwise, in particular when no price falls strictly below 95% of Close[s],
\* whatever the threshold; every returned episode belongs to one such interval.
C21_OneEpisodePerQualifyingInterval ==
    (Returned /\ ret.result.some) =>
        /\ \A s \in IntervalStarts :
               Cardinality(EpisodesOf(s)) =
                   IF FallsBelowGate(s) /\ DeclineMeetsThreshold(s) THEN 1 ELSE 0
        /\ \A k \in 1 .. Len(ReturnedEpisodes) :
               \E s \in IntervalStarts : k \in EpisodesOf(s)

\* a scan with a threshold below 5 has returned one episode for an interval that
\* falls below 95% of its peak, and none for an interval whose decline of exactly
\* 5% meets the threshold and stays at 95% of its peak
C21_Witness ==
    /\ Returned /\ ret.result.some /\ threshold > 0 /\ threshold < 5
    /\ \E s, u \in IntervalStarts :
           /\ FallsBelowGate(s) /\ DeclineMeetsThreshold(s)
           /\ Cardinality(EpisodesOf(s)) = 1
           /\ ~FallsBelowGate(u) /\ DeclineMeetsThreshold(u)
           /\ DeclineMagnitude(u, IntervalEnd(u) - 1).num > 0
           /\ EpisodesOf(u) = {}

-----------------------------------------------------------------------------
(* Properties of calculate_recovery *)

\* an episode has a row dated after its trough whose Close regains its peak
Recoverable(e) ==
    \E j \in Index(df) : DateAt(j) > e.Trough_Date /\ CloseAt(j) >= e.Peak_Price

RecoverableRows == {k \in 1 .. Len(drawdowns_df) : Recoverable(drawdowns_df[k])}

\* the position, in the episode list, of the episode behind the n-th record
SourceRow(n) ==
    CHOOSE k \in RecoverableRows : Cardinality({m \in RecoverableRows : m < k}) = n - 1

RecoveryRecord(n) == recovery_df.val[n]

\* C4: every recovery record has Recovery_Days >= 0, a Recovery_Date strictly after
\* the Trough_Date, a Close at Recovery_Date of at least the episode's Peak_Price,
\* no earlier row after the trough with Close >= Peak_Price, and
\* Recovery_Days = Recovery_Date - Trough_Date.
C4_RecoveryIsFirstCrossing ==
    recovery_df.some =>
        \A n \in 1 .. Len(recovery_df.val) :
            LET r == RecoveryRecord(n)
                e == drawdowns_df[SourceRow(n)]
            IN  /\ r.Recovery_Days >= 0
                /\ r.Trough_Date = e.Trough_Date
                /\ r.Recovery_Date > r.Trough_Date
                /\ r.Recovery_Days = r.Recovery_Date - r.Trough_Date
                /\ \E j \in Index(df) :
                       DateAt(j) = r.Recovery_Date /\ CloseAt(j) >= e.Peak_Price
                /\ \A j \in Index(df) :
                       (DateAt(j) > r.Trough_Date /\ DateAt(j) < r.Recovery_Date)
                           => CloseAt(j) < e.Peak_Price

\* a record whose recovery is not the first row after the trough (a row in between
\* stays below the peak) and spans a weekend, so that days and rows differ
C4_Witness ==
    /\ recovery_df.some
    /\ \E n \in 1 .. Len(recovery_df.val) :
           LET r == RecoveryRecord(n)
           IN  /\ \E j \in Index(df) :
                      DateAt(j) > r.Trough_Date /\ DateAt(j) < r.Recovery_Date
               /\ r.Recovery_Days > 2

\* C5: calculate_recovery returns exactly one record per episode that has a later
\* row with Close >= Peak_Price and none for the others, in the episodes' order.
C5_OneRecordPerRecoverableEpisode ==
    recovery_df.some =>
        /\ Len(recovery_df.val) = Cardinality(RecoverableRows)
        /\ \A n \in 1 .. Len(recovery_df.val) :
               LET r == RecoveryRecord(n)
                   e == drawdowns_df[SourceRow(n)]
               IN  /\ r.Trough_Date = e.Trough_Date
                   /\ r.Drawdown_Pct = e.Drawdown_Pct
                   /\ r.Drawdown_Duration_Days = e.Duration_Days

\* an episode without recovery came first in the list and left a gap: the only
\* record belongs to the episode after it
C5_Witness ==
    /\ recovery_df.some
    /\ Len(drawdowns_df) = 2
    /\ ~Recoverable(drawdowns_df[1])
    /\ Len(recovery_df.val) = 1
    /\ drawdowns_df[1].Trough_Date # drawdowns_df[2].Trough_Date

-----------------------------------------------------------------------------
(* Properties of calculate_returns, calculate_volatility, calculate_drawdown *)

Column(name) == df.col[name]

\* C7: for a non-empty table calculate_drawdown keeps the length; at every row
\* Running_Max is the maximum of Close so far and never decreases, Drawdown is
\* (Close - Running_Max) / Running_Max * 100 <= 0 with Drawdown[0] = 0, Max_Drawdown
\* is the minimum of Drawdown so far and never increases, and no entry is undefined.
C7_DrawdownSeries ==
    (HasCol(df, "Drawdown") /\ df.len >= 1) =>
        /\ df.len = df_in.len
        /\ \A c \in {"Drawdown", "Running_Max", "Max_Drawdown"} :
               DOMAIN Column(c) = Index(df)
        /\ Column("Drawdown")[0].num = 0
        /\ \A t \in Index(df) :
               LET rm == Column("Running_Max")[t]
                   dd == Column("Drawdown")[t]
                   md == Column("Max_Drawdown")[t]
               IN  /\ \E j \in 0 .. t : rm = CloseAt(j)
                   /\ \A j \in 0 .. t : CloseAt(j) <= rm
                   /\ t > 0 => Column("Running_Max")[t - 1] <= rm
                   /\ ~dd.nan
                   /\ RatEq(dd, Num((CloseAt(t) - rm) * 100, rm))
                   /\ RatLe(dd, Num(0, 1))
                   /\ ~md.nan
                   /\ \E j \in 0 .. t : RatEq(md, Column("Drawdown")[j])
                   /\ \A j \in 0 .. t : RatLe(md, Column("Drawdown")[j])
                   /\ t > 0 => RatLe(md, Column("Max_Drawdown")[t - 1])

\* a table that fell below its running maximum and later set a new maximum, so that
\* Drawdown is back at zero while Max_Drawdown keeps the earlier low
C7_Witness ==
    /\ HasCol(df, "Drawdown")
    /\ \E t \in Index(df) :
           /\ t >= 2
           /\ Column("Drawdown")[t].num = 0
           /\ Column("Max_Drawdown")[t].num < 0
           /\ Column("Running_Max")[t] > Column("Running_Max")[0]

\* C8: for a table with at least one row Daily_Return is aligned with the rows,
\* its entry 0 is the missing marker, and entry k is Close[k] / Close[k-1] - 1.
C8_DailyReturn ==
    (HasCol(df, "Daily_Return") /\ df.len >= 1) =>
        /\ df.len = df_in.len
        /\ DOMAIN Column("Daily_Return") = Index(df)
        /\ Column("Daily_Return")[0].nan
        /\ \A k \in 1 .. (df.len - 1) :
               LET r == Column("Daily_Return")[k]
               IN  /\ ~r.nan
                   /\ CloseAt(k) * r.den = CloseAt(k - 1) * (r.den + r.num)

\* returns were computed for a table with a falling and a rising day
C8_Witness ==
    /\ HasCol(df, "Daily_Return")
    /\ \E j, k \in 1 .. (df.len - 1) :
           Column("Daily_Return")[j].num < 0 /\ Column("Daily_Return")[k].num > 0

VolatilityDone == \A w \in Windows : HasCol(df, VolatilityColumn(w))

\* C9 as stated: each volatility column is undefined exactly at the rows t < w - 1.
C9_UndefinedBeforeWindowMinusOne ==
    VolatilityDone =>
        \A w \in Windows : \A t \in Index(df) :
            Column(VolatilityColumn(w))[t].nan <=> t < w - 1

\* C9, amended: computed on the Daily_Return of calculate_returns, whose entry 0 is
\* missing, each volatility column is undefined exactly at the first w rows (t < w)
\* and at every row t >= w it is computed from the w returns of rows t-w+1..t.
C9_UndefinedBeforeWindow ==
    VolatilityDone =>
        \A w \in Windows : \A t \in Index(df) :
            LET v == Column(VolatilityColumn(w))[t]
            IN  /\ v.nan <=> t < w
                /\ t >= w => v.rows = (t - w + 1) .. t

\* every window, the longest included, has filled at some row
C9_Witness ==
    /\ VolatilityDone
    /\ \A w \in Windows : \E t \in Index(df) : ~Column(VolatilityColumn(w))[t].nan

-----------------------------------------------------------------------------
(* Properties of the (result, error) contract *)

\* the columns each risk function requires
Required(name) ==
    CASE name = "calculate_returns" -> {"Close"}
      [] name = "calculate_volatility" -> {"Daily_Return"}
      [] name = "calculate_drawdown" -> {"Date", "Close"}
      [] name = "find_major_drawdowns" -> {"Date", "Close"}
      [] name = "calculate_risk_metrics" -> {"Date", "Close", "Daily_Return"}
      [] OTHER -> {}

\* C10: every call of download_data, clean_data, calculate_returns,
\* calculate_volatility, calculate_drawdown, find_major_drawdowns and
\* calculate_risk_metrics returns a pair with exactly one of result and error
\* non-None, and a call on a table lacking a required column returns no result and
\* an error message.
C10_ExactlyOneOfResultAndError ==
    called # "none" =>
        /\ ~ret.raised.some
        /\ ret.result.some # ret.error.some
        /\ ~(Required(called) \subseteq Columns(df)) => (~ret.result.some /\ ret.error.some)

\* the calls that return a pair do keep the contract: only a raise breaks it
ContractKeptByReturnedPairs ==
    (called # "none" /\ ~ret.raised.some) =>
        /\ ret.result.some # ret.error.some
        /\ ~(Required(called) \subseteq Columns(df)) => (~ret.result.some /\ ret.error.some)

CleanResult == ret.result.val

\* C15: every successful result of clean_data has exactly the fields Date, Open,
\* High, Low, Close and Volume, is sorted ascending by Date, has no Date twice, has
\* no missing Close, has Close > 0 in every row, and is indexed 0 .. n-1 in date
\* order.
C15_CleanTableKeepsDataContract ==
    (called = "clean_data" /\ ret.result.some) =>
        /\ Columns(CleanResult) = CleanColumns
        /\ \A c \in CleanColumns : DOMAIN CleanResult.col[c] = 0 .. (CleanResult.len - 1)
        /\ \A j, k \in Index(CleanResult) :
               j < k => CleanResult.col["Date"][j] <= CleanResult.col["Date"][k]
        /\ \A j, k \in Index(CleanResult) :
               j # k => CleanResult.col["Date"][j] # CleanResult.col["Date"][k]
        /\ \A k \in Index(CleanResult) : CleanResult.col["Close"][k] # NA
        /\ \A k \in Index(CleanResult) : CleanResult.col["Close"][k] > 0

\* what clean_data does deliver: the six fields, indexed 0 .. n-1, in ascending
\* order of Date, with no missing Date or Close, each row one of the rows it was given
CleanTableSortedAndComplete ==
    (called = "clean_data" /\ ret.result.some) =>
        /\ Columns(CleanResult) = CleanColumns
        /\ \A c \in CleanColumns : DOMAIN CleanResult.col[c] = 0 .. (CleanResult.len - 1)
        /\ \A j, k \in Index(CleanResult) :
               j < k => CleanResult.col["Date"][j] <= CleanResult.col["Date"][k]
        /\ \A k \in Index(CleanResult) :
               CleanResult.col["Close"][k] # NA /\ CleanResult.col["Date"][k] # NA
        /\ CleanResult.len <= raw_data.val.len

\* clean_data has returned a table with the same Date in two rows, and one with a
\* Close of zero
DuplicateDateKept ==
    /\ called = "clean_data" /\ ret.result.some
    /\ \E j, k \in Index(CleanResult) :
           j # k /\ CleanResult.col["Date"][j] = CleanResult.col["Date"][k]

ZeroCloseKept ==
    /\ called = "clean_data" /\ ret.result.some
    /\ \E k \in Index(CleanResult) : CleanResult.col["Close"][k] = 0

-----------------------------------------------------------------------------
(* Properties of main *)

\* the stages of main in the order of its text
StageOrder ==
    <<"_load_and_prepare_data", "calculate_returns", "calculate_volatility",
      "calculate_drawdown", "find_major_drawdowns", "calculate_recovery",
      "calculate_risk_metrics", "calculate_factors", "render">>

IsPrefix(a, b) == Len(a) <= Len(b) /\ \A k \in 1 .. Len(a) : a[k] = b[k]

\* what st.error puts before the message of each stage
ErrorPrefixes ==
    {"Error: ", "Error calculating returns: ", "Error calculating volatility: ",
     "Error calculating drawdown: ", "Error finding drawdowns: ",
     "Error calculating risk metrics: ", "Error calculating indicators: "}

\* C13: main invokes its stages in the order load/clean, returns, volatility,
\* drawdown series, major drawdowns, recovery, risk metrics, indicators, render;
\* once a stage has reported an error main has halted: no stage is invoked after
\* it, no tab is rendered, and exactly one error is shown, which holds the message
\* of that stage unchanged.  Tabs are rendered only after all stages ran without
\* an error.
C13_HaltsOnFirstError ==
    /\ [](IsPrefix(calls, StageOrder))
    /\ [](stage = "error" =>
             /\ ret.error.some
             /\ Len(st.error) = 1
             /\ \E prefix \in ErrorPrefixes : st.error[1] = prefix \o ret.error.val
             /\ st.tabs = <<>> /\ st.metric = <<>>)
    /\ [](stage # "error" => st.error = <<>>)
    /\ [](st.tabs # <<>> => calls = StageOrder /\ st.error = <<>>)
    /\ [][stage = "error" => (calls' = calls /\ st' = st)]_vars
    /\ [][(ret'.error.some /\ calls' # calls) => stage' = "error"]_vars

\* main has halted on the message clean_data reported, after the download succeeded
C13_Witness ==
    /\ stage = "error"
    /\ calls = <<"_load_and_prepare_data">>
    /\ ret.error = Some(MissingDate)
    /\ st.error = <<"Error: " \o MissingDate>>

\* the lowest entry of the Drawdown column main's table holds after calculate_drawdown
MinDrawdown ==
    LET Drawdown == df.col["Drawdown"]
    IN  CHOOSE m \in {Drawdown[t] : t \in Index(df)} :
            \A t \in Index(df) : RatLe(m, Drawdown[t])

\* C14: on a table of two rows or more the max_drawdown calculate_risk_metrics
\* returns equals the minimum of the Drawdown column calculate_drawdown produces
\* on the same table, in the same percent units.
C14_MaxDrawdownIsMinimumOfDrawdownColumn ==
    (risk_metrics.some /\ df.len >= 2) =>
        RatEq(risk_metrics.val.max_drawdown, MinDrawdown)

\* C14, amended: on a table of two rows or more max_drawdown is a fraction, one
\* hundredth of the minimum of the Drawdown column, which is in percent; the
\* Max Drawdown metric that is rendered is its magnitude times 100.
C14_MaxDrawdownIsFractionOfMinimum ==
    (risk_metrics.some /\ df.len >= 2) =>
        LET max_dd == risk_metrics.val.max_drawdown
        IN  /\ RatEq(Num(max_dd.num * 100, max_dd.den), MinDrawdown)
            /\ RatLe(Num(-1, 1), max_dd) /\ RatLe(max_dd, Num(0, 1))
            /\ st.metric # <<>> =>
                   st.metric[1].hundredths = PercentHundredths(RatAbs(Num(MinDrawdown.num, MinDrawdown.den * 100)))

\* main has rendered the metrics of a table of two rows or more whose Drawdown
\* column goes down to -20 percent
C14_Witness ==
    /\ stage = "done" /\ risk_metrics.some /\ df.len >= 2
    /\ RatEq(MinDrawdown, Num(-20, 1))
    /\ st.metric[1].hundredths = 2000

StrictlyIncreasingDates == \A j, k \in Index(df) : j < k => DateAt(j) < DateAt(k)

\* C19: on a table whose dates increase strictly, calculate_recovery applied to the
\* table and to the episodes find_major_drawdowns returned for it gives one
\* recovery record for each episode, in the order of the episodes, and each
\* Recovery_Date is not after the date of the row that closed the episode, the
\* first row after its trough with a price above its peak.
C19_EveryDetectedEpisodeHasRecovery ==
    (recovery_df.some /\ StrictlyIncreasingDates) =>
        /\ Len(recovery_df.val) = Len(drawdowns_df)
        /\ \A k \in 1 .. Len(drawdowns_df) :
               /\ recovery_df.val[k].Trough_Date = drawdowns_df[k].Trough_Date
               /\ recovery_df.val[k].Recovery_Date <= DateAt(ClosedAt(drawdowns_df[k]))

\* the recovery of a detected episode has been computed on a table with strictly
\* increasing dates, and the episode recovered before the row that closed it
C19_Witness ==
    /\ recovery_df.some /\ StrictlyIncreasingDates
    /\ Len(drawdowns_df) >= 1
    /\ recovery_df.val[1].Recovery_Date < DateAt(ClosedAt(drawdowns_df[1]))

\* C20: the episodes find_major_drawdowns returned are in date order and do not
\* overlap: the Peak_Date of each is strictly after the Trough_Date of the one
\* before it and not before the date of the row that closed the one before it, and
\* its Peak_Price is higher.
C20_EpisodesChronologicalAndDisjoint ==
    \A k \in 1 .. (Len(drawdowns_df) - 1) :
        LET a == drawdowns_df[k]
            b == drawdowns_df[k + 1]
        IN  /\ b.Peak_Date > a.Trough_Date
            /\ b.Peak_Date >= DateAt(ClosedAt(a))
            /\ b.Peak_Price > a.Peak_Price

\* on the tables main hands to the detector with strictly increasing dates the
\* episodes are in date order and do not overlap
ChronologicalInMainUnderIncreasingDates ==
    StrictlyIncreasingDates => C20_EpisodesChronologicalAndDisjoint

-----------------------------------------------------------------------------
(* The columns of main's table from stage to stage *)

ReturnColumns == CleanColumns \cup {"Daily_Return"}
VolatilityColumns == ReturnColumns \cup {VolatilityColumn(w) : w \in Windows}
DrawdownColumns == VolatilityColumns \cup {"Drawdown", "Running_Max", "Max_Drawdown"}
FactorColumns == DrawdownColumns \cup {"MA_20", "MA_100", "Mom_20d"}

\* the columns main's table holds when main is about to run the stage
ColumnsAtStage ==
    [s \in {"returns", "volatility", "drawdown", "drawdowns", "recovery", "risk",
            "raised", "indicators", "render", "done"} |->
        CASE s = "returns" -> CleanColumns
          [] s = "volatility" -> ReturnColumns
          [] s = "drawdown" -> VolatilityColumns
          [] s \in {"drawdowns", "recovery", "risk", "raised", "indicators"} -> DrawdownColumns
          [] OTHER -> FactorColumns]

\* the messages with which the stages after the load report a missing column
MissingColumnMessages ==
    {ReturnsMissingClose, VolatilityMissingReturn, MissingDateClose, RiskMissingColumns,
     FactorsMissingClose}

\* C22: once the load stage has succeeded main's table holds Date and Close, and
\* before each later stage it holds exactly the columns of the cleaned table and
\* those the stages run so far have added (Daily_Return, then the three volatility
\* columns, then Drawdown, Running_Max and Max_Drawdown, then the indicators); a
\* stage keeps every column it receives, with its rows, and so no stage after the
\* load reports a missing-column failure, in any run.
C22_NoMissingColumnAfterClean ==
    /\ [](stage \in DOMAIN ColumnsAtStage =>
             /\ Columns(df) = ColumnsAtStage[stage]
             /\ HasCol(df, "Date") /\ HasCol(df, "Close"))
    /\ [](Len(calls) >= 2 => ~(ret.error.some /\ ret.error.val \in MissingColumnMessages))
    /\ [](\A k \in 1 .. Len(st.error) :
             \A prefix \in ErrorPrefixes, m \in MissingColumnMessages :
                 st.error[k] # prefix \o m)
    /\ [][stage # "load" =>
             /\ df'.len = df.len
             /\ \A c \in Columns(df) : c \in Columns(df') /\ df'.col[c] = df.col[c]]_vars

\* main has rendered its tabs from a downloaded table that held Date and Close only:
\* clean_data supplied the other four columns and every stage found its columns
C22_Witness ==
    /\ stage = "done" /\ calls = StageOrder /\ st.error = <<>>
    /\ raw_data.some /\ Columns(raw_data.val) = {"Date", "Close"}
    /\ Columns(df) = FactorColumns

====
